---- MODULE Spec2Model ----
(***************************************************************************)
(* Model of tutorials/vae_mnist.py: Bayesian optimisation in the latent    *)
(* space of a VAE.  The script seeds a dataset with a random batch, runs   *)
(* N_BATCH rounds of fit / optimise / observe / update, and finally draws  *)
(* the best image found at several stages of the run.                      *)
(*                                                                         *)
(* Reals are held in fixed point: a coordinate r is the integer r * Den.   *)
(* Scores are integers 0..MaxScore (only their order matters).             *)
(***************************************************************************)
EXTENDS Integers, Sequences, FiniteSets, TLC

VARIABLES pc, f, train_x, train_obj, best_value, best_observed, iteration,
          model, qEI, new_x, new_obj, state_dict, error, evaluated, shown,
          epc, input, shape, raised

vars == <<pc, f, train_x, train_obj, best_value, best_observed, iteration,
          model, qEI, new_x, new_obj, state_dict, error, evaluated, shown,
          epc, input, shape, raised>>

loopVars == <<pc, f, train_x, train_obj, best_value, best_observed, iteration,
              model, qEI, new_x, new_obj, state_dict, error, evaluated, shown>>

evalVars == <<epc, input, shape, raised>>

-----------------------------------------------------------------------------
(* Bounds of the model *)

\* resolution of the fixed-point grid: coordinates are multiples of 1/Den
Den == 1

\* scores range over 0..MaxScore
MaxScore == 1

\* largest batch handed to the objective pipeline on its own
MaxRows == 5

-----------------------------------------------------------------------------
(* Configuration of the script *)

SMOKE_TEST == TRUE

d == 20

bounds == << [i \in 1..d |-> (0 - 6) * Den], [i \in 1..d |-> 6 * Den] >>

n_init == 5

BATCH_SIZE == IF SMOKE_TEST THEN 2 ELSE 3

N_BATCH == IF SMOKE_TEST THEN 3 ELSE 25

\* Python's None, and a variable holding a value v
None == <<>>

Some(v) == <<v>>

\* no exception has been raised
NoError == "no error"

-----------------------------------------------------------------------------
(* Helpers on sequences of scores *)

RECURSIVE SeqMax(_)
SeqMax(s) ==
    IF Len(s) = 1 THEN s[1]
    ELSE LET m == SeqMax(Tail(s)) IN IF s[1] >= m THEN s[1] ELSE m

\* torch.argmax: index of the first maximal value (1-based here)
ArgMax(s) ==
    CHOOSE i \in 1..Len(s) :
        /\ s[i] = SeqMax(s)
        /\ \A j \in 1..(i - 1) : s[j] < s[i]

\* Python slice s[:n]
Slice(s, n) == SubSeq(s, 1, IF n < Len(s) THEN n ELSE Len(s))

Last(s) == s[Len(s)]

-----------------------------------------------------------------------------
(* botorch.utils.transforms *)

\* X * (bounds[1] - bounds[0]) + bounds[0], on one row
unnormalize(X, bnds) ==
    [i \in 1..d |-> (X[i] * (bnds[2][i] - bnds[1][i])) \div Den + bnds[1][i]]

-----------------------------------------------------------------------------
(* Points of the search domain *)

\* the Den + 1 grid points on the diagonal from the lower to the upper corner
GridPoints(bnds) ==
    { [i \in 1..d |-> bnds[1][i] + (k * (bnds[2][i] - bnds[1][i])) \div Den] :
        k \in 0..Den }

\* torch.stack([torch.zeros(d), torch.ones(d)]): the unit cube
AcqBoundsLatent == bounds

AcqBounds == << [i \in 1..d |-> 0], [i \in 1..d |-> Den] >>

\* torch.rand(n, d): n rows drawn from the half-open interval [0, 1)
Rand(n) == [1..n -> { [i \in 1..d |-> k] : k \in 0..(Den - 1) }]

\* optimize_acqf(acq_function, bounds, q, ...): q candidates within bounds
optimize_acqf(acq_func, bnds, q) == [1..q -> GridPoints(bnds)]

\* the latent vectors of the declared box that the grid can express
Latents == GridPoints(bounds)

InBox(x) == \A i \in 1..d : bounds[1][i] <= x[i] /\ x[i] <= bounds[2][i]

-----------------------------------------------------------------------------
(* The objective: score_image(decode(x)).  The network weights are frozen, *)
(* so the objective is a fixed function of the latent vector; f is that    *)
(* function on the grid (any vector off the grid scores 0).                *)

objective(x) == IF x \in DOMAIN f THEN f[x] ELSE 0

\* score_image(decode(X)) for a batch X of rows
evaluate(X) == [j \in 1..Len(X) |-> objective(X[j])]

Rows(X) == { X[j] : j \in 1..Len(X) }

-----------------------------------------------------------------------------
(* State after the definitions of the script, before the seeding call *)

EvalIdle ==
    /\ epc = 0
    /\ input = <<>>
    /\ shape = <<>>
    /\ raised = FALSE

Init ==
    /\ pc = "seed"
    /\ f \in [Latents -> 0..MaxScore]
    /\ train_x = <<>>
    /\ train_obj = <<>>
    /\ best_value = None
    /\ best_observed = <<>>
    /\ iteration = 0
    /\ model = None
    /\ qEI = None
    /\ new_x = <<>>
    /\ new_obj = <<>>
    /\ state_dict = None
    /\ error = NoError
    /\ evaluated = {}
    /\ shown = <<>>
    /\ EvalIdle

-----------------------------------------------------------------------------
(* for iteration in range(N_BATCH) *)

RangeOffByOne(n) == 0..n

\* range(N_BATCH): the values the loop variable takes
Range(n) == 0..(n - 1)

\* where control goes when `done` rounds are complete: the body once more, or
\* past the loop to the figure
LoopHead(done) == IF done \in Range(N_BATCH) THEN "fit" ELSE "viz"

-----------------------------------------------------------------------------
(* gen_initial_data(n=5) and the seeding of best_observed *)

gen_initial_data(n) ==
    \E u \in Rand(n) :
        LET X == [j \in 1..n |-> unnormalize(u[j], bounds)]
            obj == evaluate(X)
        IN /\ train_x' = X
           /\ train_obj' = obj
           /\ best_value' = Some(SeqMax(obj))
           /\ evaluated' = evaluated \cup Rows(X)

Seed ==
    /\ pc = "seed"
    /\ gen_initial_data(n_init)
    /\ best_observed' = Append(best_observed, best_value'[1])
    /\ pc' = LoopHead(iteration)
    /\ UNCHANGED <<f, iteration, model, qEI, new_x, new_obj, state_dict, error,
                   shown, evalVars>>

-----------------------------------------------------------------------------
(* The BO loop: for iteration in range(N_BATCH) *)

\* get_fitted_model(train_x, train_obj, state_dict) returning a model; of the
\* fitted GP only the size of its training data and the warm start are kept
get_fitted_model ==
    /\ pc = "fit"
    /\ model' = Some([train_X |-> Len(train_x),
                      train_Y |-> Len(train_obj),
                      warm_start |-> state_dict])
    /\ pc' = "acqf"
    /\ UNCHANGED <<f, train_x, train_obj, best_value, best_observed, iteration,
                   qEI, new_x, new_obj, state_dict, error, evaluated, shown,
                   evalVars>>

RaiseContinues(e) ==
    /\ error' = e
    /\ iteration' = iteration + 1
    /\ pc' = LoopHead(iteration')
    /\ UNCHANGED <<f, train_x, train_obj, best_value, best_observed,
                   model, qEI, new_x, new_obj, state_dict, evaluated, shown,
                   evalVars>>

\* an exception leaves the loop body: nothing catches it, the script stops
Raise(e) ==
    /\ error' = e
    /\ pc' = "failed"
    /\ UNCHANGED <<f, train_x, train_obj, best_value, best_observed, iteration,
                   model, qEI, new_x, new_obj, state_dict, evaluated, shown,
                   evalVars>>

\* fit_gpytorch_mll fails inside get_fitted_model
get_fitted_model_raises ==
    /\ pc = "fit"
    /\ Raise("fit")

\* qExpectedImprovement(model=model, best_f=train_obj.max())
qExpectedImprovement ==
    /\ pc = "acqf"
    /\ qEI' = Some([best_f |-> SeqMax(train_obj)])
    /\ pc' = "optimize"
    /\ UNCHANGED <<f, train_x, train_obj, best_value, best_observed, iteration,
                   model, new_x, new_obj, state_dict, error, evaluated, shown,
                   evalVars>>

\* optimize_acqf_and_get_observation(qEI)
optimize_acqf_and_get_observation ==
    /\ pc = "optimize"
    /\ \E candidates \in optimize_acqf(qEI, AcqBounds, BATCH_SIZE) :
          LET X == [j \in 1..BATCH_SIZE |-> unnormalize(candidates[j], bounds)]
          IN /\ new_x' = X
             /\ new_obj' = evaluate(X)
             /\ evaluated' = evaluated \cup Rows(X)
    /\ pc' = "update"
    /\ UNCHANGED <<f, train_x, train_obj, best_value, best_observed, iteration,
                   model, qEI, state_dict, error, shown, evalVars>>

\* optimize_acqf fails inside optimize_acqf_and_get_observation
optimize_acqf_raises ==
    /\ pc = "optimize"
    /\ Raise("optimize")

CatReplace(a, b) == b

CatPrepend(a, b) == b \o a

\* torch.cat((a, b))
Cat(a, b) == a \o b

BatchBest(obj, new) == SeqMax(new)

LatestValue(obj, new) == Last(obj)

\* train_obj.max().item(), taken after the new batch is in train_obj
BestValue(obj, new) == SeqMax(obj)

RecordOverwrite(h, v) == [h EXCEPT ![Len(h)] = v]

\* best_observed.append(best_value)
Record(h, v) == Append(h, v)

\* the rest of the loop body: update training points, update progress, keep
\* the state dict; then the next value of range(N_BATCH)
Update ==
    /\ pc = "update"
    /\ train_x' = Cat(train_x, new_x)
    /\ train_obj' = Cat(train_obj, new_obj)
    /\ best_value' = Some(BestValue(train_obj', new_obj))
    /\ best_observed' = Record(best_observed, best_value'[1])
    /\ state_dict' = Some([fitted_on |-> model[1].train_Y])
    /\ iteration' = iteration + 1
    /\ pc' = LoopHead(iteration')
    /\ UNCHANGED <<f, model, qEI, new_x, new_obj, error, evaluated, shown,
                   evalVars>>

-----------------------------------------------------------------------------
(* The progress figure *)

percentages == <<0, 10, 25, 50, 75, 100>>

\* (N_BATCH * BATCH_SIZE * percentages / 100 + 4).astype(int)
inds == [i \in 1..Len(percentages) |->
            (N_BATCH * BATCH_SIZE * percentages[i]) \div 100 + 4]

\* b = torch.argmax(score_image(decode(train_x[: inds[i], :])), dim=0), for each axis
Visualise ==
    /\ pc = "viz"
    /\ shown' = [i \in 1..Len(percentages) |->
                    ArgMax(evaluate(Slice(train_x, inds[i])))]
    /\ pc' = "end"
    /\ UNCHANGED <<f, train_x, train_obj, best_value, best_observed, iteration,
                   model, qEI, new_x, new_obj, state_dict, error, evaluated,
                   evalVars>>

Next ==
    \/ Seed
    \/ get_fitted_model
    \/ get_fitted_model_raises
    \/ qExpectedImprovement
    \/ optimize_acqf_and_get_observation
    \/ optimize_acqf_raises
    \/ Update
    \/ Visualise

Spec == Init /\ [][Next]_vars

-----------------------------------------------------------------------------
(* The objective pipeline on tensor shapes: decode, Net.forward, score_image. *)
(* A tensor is represented by its shape; each stage maps a shape to a shape  *)
(* or raises.                                                                *)

\* no tensor has this shape: the result of a stage that raises
Err == <<0 - 1>>

RECURSIVE Prod(_)
Prod(s) == IF s = <<>> THEN 1 ELSE s[1] * Prod(Tail(s))

Known(target) == Prod(SelectSeq(target, LAMBDA n : n # 0 - 1))

Infers(target) == \E i \in 1..Len(target) : target[i] = 0 - 1

ViewRejectsEmpty(shp, target) ==
    IF Infers(target)
    THEN IF Prod(shp) > 0 /\ Known(target) > 0 /\ Prod(shp) % Known(target) = 0
         THEN [i \in 1..Len(target) |->
                  IF target[i] = 0 - 1 THEN Prod(shp) \div Known(target)
                  ELSE target[i]]
         ELSE Err
    ELSE IF Prod(shp) = Prod(target) THEN target ELSE Err

\* Tensor.view(*target): the element count is kept; one -1 is inferred when
\* the other sizes have a non-zero product that divides the element count
View(shp, target) ==
    IF Infers(target)
    THEN IF Known(target) > 0 /\ Prod(shp) % Known(target) = 0
         THEN [i \in 1..Len(target) |->
                  IF target[i] = 0 - 1 THEN Prod(shp) \div Known(target)
                  ELSE target[i]]
         ELSE Err
    ELSE IF Prod(shp) = Prod(target) THEN target ELSE Err

\* nn.Linear(in, out): acts on the last dimension
Linear(shp, in, out) ==
    IF Len(shp) >= 1 /\ shp[Len(shp)] = in
    THEN [shp EXCEPT ![Len(shp)] = out]
    ELSE Err

\* nn.Conv2d(cin, cout, k, 1) on an (N, C, H, W) tensor; N may be 0
Conv2d(shp, cin, cout, k) ==
    IF Len(shp) = 4 /\ shp[2] = cin /\ shp[3] >= k /\ shp[4] >= k
    THEN <<shp[1], cout, shp[3] - k + 1, shp[4] - k + 1>>
    ELSE Err

\* F.max_pool2d(x, 2, 2) on an (N, C, H, W) tensor; N may be 0
MaxPool2d(shp) ==
    IF Len(shp) = 4 /\ shp[3] >= 2 /\ shp[4] >= 2
    THEN <<shp[1], shp[2], shp[3] \div 2, shp[4] \div 2>>
    ELSE Err

\* F.log_softmax(x, dim=1)
LogSoftmax(shp) == IF Len(shp) >= 2 THEN shp ELSE Err

\* probs * score(torch.arange(10)).expand(probs.shape)
TimesScores(shp) ==
    IF Len(shp) >= 1 /\ shp[Len(shp)] = 10 THEN shp ELSE Err

\* .sum(dim=1)
SumDim1(shp) ==
    IF Len(shp) >= 2
    THEN [i \in 1..(Len(shp) - 1) |-> IF i < 2 THEN shp[i] ELSE shp[i + 1]]
    ELSE Err

\* the stages in program order, for an input of shape x
Stage(k, shp, x) ==
    CASE k = 1  -> Linear(shp, 20, 400)             \* VAE.decode: fc3
      [] k = 2  -> shp                              \* F.relu
      [] k = 3  -> Linear(shp, 400, 784)            \* fc4
      [] k = 4  -> shp                              \* torch.sigmoid
      [] k = 5  -> View(shp, <<x[1], 1, 28, 28>>)   \* decode: view(train_x.shape[0], 1, 28, 28)
      [] k = 6  -> Conv2d(shp, 1, 20, 5)            \* Net.forward: conv1
      [] k = 7  -> shp                              \* F.relu
      [] k = 8  -> MaxPool2d(shp)
      [] k = 9  -> Conv2d(shp, 20, 50, 5)           \* conv2
      [] k = 10 -> shp                              \* F.relu
      [] k = 11 -> MaxPool2d(shp)
      [] k = 12 -> View(shp, <<0 - 1, 4 * 4 * 50>>) \* x.view(-1, 4 * 4 * 50)
      [] k = 13 -> Linear(shp, 4 * 4 * 50, 500)     \* fc1
      [] k = 14 -> shp                              \* F.relu
      [] k = 15 -> Linear(shp, 500, 10)             \* fc2
      [] k = 16 -> LogSoftmax(shp)
      [] k = 17 -> shp                              \* score_image: torch.exp
      [] k = 18 -> TimesScores(shp)
      [] k = 19 -> SumDim1(shp)

NStages == 19

\* a batch of n latent vectors, or one latent vector without a batch dimension
Inputs == { <<n, d>> : n \in 0..MaxRows } \cup { <<d>> }

EvalInit ==
    /\ pc = "idle"
    /\ f = [x \in Latents |-> 0]
    /\ train_x = <<>>
    /\ train_obj = <<>>
    /\ best_value = None
    /\ best_observed = <<>>
    /\ iteration = 0
    /\ model = None
    /\ qEI = None
    /\ new_x = <<>>
    /\ new_obj = <<>>
    /\ state_dict = None
    /\ error = NoError
    /\ evaluated = {}
    /\ shown = <<>>
    /\ input \in Inputs
    /\ shape = input
    /\ epc = 1
    /\ raised = FALSE

\* one stage of score_image(decode(x)) completes
EvalStep ==
    /\ epc \in 1..NStages
    /\ ~raised
    /\ Stage(epc, shape, input) # Err
    /\ shape' = Stage(epc, shape, input)
    /\ epc' = epc + 1
    /\ UNCHANGED <<input, raised, loopVars>>

\* one stage of score_image(decode(x)) raises a RuntimeError
EvalRaise ==
    /\ epc \in 1..NStages
    /\ ~raised
    /\ Stage(epc, shape, input) = Err
    /\ raised' = TRUE
    /\ UNCHANGED <<input, shape, epc, loopVars>>

EvalNext == EvalStep \/ EvalRaise

EvalSpec == EvalInit /\ [][EvalNext]_vars

-----------------------------------------------------------------------------
(* Properties of the run *)

Seeded == pc \in {"fit", "acqf", "optimize", "update", "failed", "viz", "end"}

Done == pc \in {"viz", "end"}

IsPrefix(a, b) == Len(a) <= Len(b) /\ a = SubSeq(b, 1, Len(a))

\* C1: after the seeding and k completed rounds, train_x and train_obj hold
\* exactly n_init + k * BATCH_SIZE observations, for every k in 0..N_BATCH
C1_DatasetSize ==
    Seeded =>
        /\ iteration \in 0..N_BATCH
        /\ Len(train_x) = n_init + iteration * BATCH_SIZE
        /\ Len(train_obj) = n_init + iteration * BATCH_SIZE

C1_Witness ==
    /\ pc = "viz"
    /\ iteration = N_BATCH
    /\ Len(train_x) = n_init + N_BATCH * BATCH_SIZE

\* C2: after the seeding and after every completed round, the last entry of
\* best_observed is the maximum score over the whole of train_obj
C2_LastIsDatasetMax ==
    Seeded => Last(best_observed) = SeqMax(train_obj)

C2_Witness ==
    /\ Seeded
    /\ iteration >= 1
    /\ SeqMax(new_obj) < Last(best_observed)
    /\ Last(best_observed) = SeqMax(train_obj)

\* C3: best_observed is non-decreasing at every point of a run, whatever the
\* objective returns for the new batches
C3_NonDecreasing ==
    \A i \in 1..(Len(best_observed) - 1) : best_observed[i] <= best_observed[i + 1]

C3_Witness ==
    /\ Len(best_observed) = N_BATCH + 1
    /\ best_observed[1] < best_observed[2]
    /\ SeqMax(new_obj) < best_observed[2]

\* C4: every latent vector ever passed to the objective, from the initial
\* batch or from a batch selected in the loop, lies componentwise in the
\* declared box
C4_EvaluatedInBox ==
    \A x \in evaluated : InBox(x)

C4_Witness ==
    /\ pc = "end"
    /\ bounds[1] \in evaluated
    /\ bounds[2] \in evaluated

\* C5: the dataset is append-only: every step leaves the old train_x and
\* train_obj as a prefix of the new ones, a round appends exactly the new
\* batch at the end, and train_obj[j] stays the score of train_x[j]
C5_AppendOnly ==
    [][ Seeded =>
          /\ IsPrefix(train_x, train_x')
          /\ IsPrefix(train_obj, train_obj')
          /\ (pc = "update" =>
                /\ train_x' = train_x \o new_x
                /\ train_obj' = train_obj \o new_obj)
          /\ Len(train_x') = Len(train_obj')
          /\ \A j \in 1..Len(train_x') : train_obj'[j] = objective(train_x'[j])
      ]_vars

C5_Witness ==
    /\ iteration >= 2
    /\ pc = "fit"
    /\ SubSeq(train_x, Len(train_x) - BATCH_SIZE + 1, Len(train_x)) = new_x
    /\ new_x[1] # train_x[1]
    /\ new_obj[1] # train_obj[1]

\* C6: when the fit or the acquisition optimisation fails in round k, the run
\* stops there (no later step is taken), and the dataset and best_observed are
\* those of the end of round k - 1: no partial batch is appended
C6_AbortKeepsResults ==
    [][ /\ error = NoError
        /\ (error' # NoError =>
              /\ pc' = "failed"
              /\ UNCHANGED <<train_x, train_obj, best_observed, iteration>>
              /\ Len(train_x') = n_init + iteration' * BATCH_SIZE
              /\ Len(train_obj') = n_init + iteration' * BATCH_SIZE
              /\ Len(best_observed') = iteration' + 1
              /\ Last(best_observed') = SeqMax(train_obj'))
      ]_vars

C6_Witness ==
    /\ pc = "failed"
    /\ error = "optimize"
    /\ iteration = 1
    /\ Len(train_x) = n_init + BATCH_SIZE
    /\ Len(best_observed) = 2

\* C7: the objective pipeline applied to a batch of zero latent vectors
\* returns an empty score tensor and raises nothing
C7_EmptyBatch ==
    input = <<0, d>> =>
        /\ ~raised
        /\ (epc = NStages + 1 => shape = <<0>>)

C7_Witness ==
    /\ input = <<0, d>>
    /\ epc = NStages + 1
    /\ shape = <<0>>
    /\ ~raised

\* C8: best_observed has one entry for the initial batch plus one per
\* completed round; a completed run has N_BATCH + 1 entries
C8_HistoryLength ==
    /\ Seeded => Len(best_observed) = 1 + iteration
    /\ Done => Len(best_observed) = N_BATCH + 1

C8_Witness ==
    /\ pc = "end"
    /\ Len(best_observed) = N_BATCH + 1

\* the number of steps the script still has to take: four per round to come
\* (fit, acquisition function, optimise and observe, update), then the figure
StepsLeft ==
    CASE pc = "seed"     -> 4 * N_BATCH + 2
      [] pc = "fit"      -> 4 * (N_BATCH - iteration) + 1
      [] pc = "acqf"     -> 4 * (N_BATCH - iteration)
      [] pc = "optimize" -> 4 * (N_BATCH - iteration) - 1
      [] pc = "update"   -> 4 * (N_BATCH - iteration) - 2
      [] pc = "viz"      -> 1
      [] pc = "end"      -> 0
      [] pc = "failed"   -> 0

\* C9: unless a round fails the run goes from seeding through the rounds to
\* done; the loop always ends (every step takes one off a count of steps left
\* that never goes below zero), after exactly N_BATCH rounds whatever the
\* scores, and once done neither the dataset nor best_observed changes
C9_Terminates ==
    [][ /\ StepsLeft' < StepsLeft
        /\ StepsLeft' >= 0
        /\ (pc = "seed" => pc' \in {"fit", "viz"})
        /\ (Done' => iteration' = N_BATCH /\ error' = NoError /\ pc # "failed")
        /\ (Done => UNCHANGED <<train_x, train_obj, best_observed, iteration>>)
      ]_vars

C9_Witness ==
    /\ pc = "end"
    /\ iteration = N_BATCH
    /\ error = NoError

\* C10: in the progress figure the first image (0%) is the best-scoring point
\* of the whole initial batch of n_init points and the last image (100%) is
\* the best-scoring point of the final dataset
C10_FigureShowsBest ==
    pc = "end" =>
        /\ train_obj[shown[1]] = SeqMax(SubSeq(train_obj, 1, n_init))
        /\ train_obj[shown[Len(percentages)]] = SeqMax(train_obj)

====
